---- MODULE Spec2Model ----
(***************************************************************************)
(* Model of gravity-core-adapter/src/state.rs: the GravityContract record  *)
(* and its Pack implementation (unpack_from_slice / pack_into_slice).      *)
(*                                                                         *)
(* A byte buffer is a sequence of integers in 0..255.  A Pubkey is its 32  *)
(* raw bytes.  A u64 does not fit a model integer, so last_round is kept   *)
(* as four 16-bit limbs, most significant first, the way the number is     *)
(* written in hexadecimal: 0x0102030405060708 is <<258, 772, 1286, 1800>>. *)
(***************************************************************************)
EXTENDS Integers, Sequences, FiniteSets, TLC

(***************************************************************************)
(* Program constants.                                                      *)
(***************************************************************************)
LEN == 138

PUBKEY_BYTES == 32

U64_BYTES == 8

(***************************************************************************)
(* Bounds of the model.                                                    *)
(***************************************************************************)
\* largest consul count of a struct literal built outside the codec
MaxConsuls == 4

\* bytes a buffer may hold beyond LEN
MaxExtra == 2

\* field updates applied to a loaded record in one behaviour
MaxUpdates == 2

(***************************************************************************)
(* Values.                                                                 *)
(***************************************************************************)
\* Key(0) is Pubkey::default(), 32 zero bytes; Key(k) for k > 0 is a
\* non-zero pattern whose 32 bytes all differ from one another.
Key(k) == [i \in 1..PUBKEY_BYTES |-> IF k = 0 THEN 0 ELSE (k * 16 + i) % 256]

KeyA == Key(1)

KeyB == Key(4)

KeyC == Key(7)

\* 42 and 0x0102030405060708
Round42 == <<0, 0, 0, 42>>

RoundHex == <<258, 772, 1286, 1800>>

(***************************************************************************)
(* Slices and arrays.                                                      *)
(***************************************************************************)
\* s[from..to] with Rust's half-open, zero-based bounds
Slice(s, from, to) == SubSeq(s, from + 1, to)

\* the buffer buf with bytes written at zero-based offset off
WriteAt(buf, off, bytes) ==
    [i \in 1..Len(buf) |->
        IF i > off /\ i <= off + Len(bytes) THEN bytes[i - off] ELSE buf[i]]

\* the mutant of FoldConcat that prepends: vec![x, acc].concat()
RECURSIVE FoldConcatPrepend(_)
FoldConcatPrepend(keys) ==
    IF keys = <<>> THEN <<>>
    ELSE keys[Len(keys)] \o FoldConcatPrepend(SubSeq(keys, 1, Len(keys) - 1))

\* .fold(vec![], |acc, x| vec![acc, x.to_bytes().to_vec()].concat())
RECURSIVE FoldConcat(_)
FoldConcat(keys) ==
    IF keys = <<>> THEN <<>>
    ELSE FoldConcat(SubSeq(keys, 1, Len(keys) - 1)) \o keys[Len(keys)]

\* the mutant of to_le_bytes that writes the most significant byte first
to_be_bytes(v) ==
    [i \in 1..U64_BYTES |->
        LET limb == v[((i - 1) \div 2) + 1]
        IN  IF (i - 1) % 2 = 0 THEN limb \div 256 ELSE limb % 256]

\* the mutant of from_le_bytes that reads the most significant byte first
from_be_bytes(b) ==
    [j \in 1..4 |-> b[2 * j - 1] * 256 + b[2 * j]]

\* u64::to_le_bytes: byte i (zero-based) is digit i of the value in base 256
to_le_bytes(v) ==
    [i \in 1..U64_BYTES |->
        LET limb == v[4 - ((i - 1) \div 2)]
        IN  IF (i - 1) % 2 = 0 THEN limb % 256 ELSE limb \div 256]

\* u64::from_le_bytes
from_le_bytes(b) ==
    [j \in 1..4 |-> b[2 * (4 - j) + 2] * 256 + b[2 * (4 - j) + 1]]

\* `*is_initialized as u8`
BoolAsU8(b) == IF b THEN 1 ELSE 0

(***************************************************************************)
(* GravityContract.                                                        *)
(***************************************************************************)
GravityContract(init, key, bft, consuls, round) ==
    [is_initialized |-> init, initializer_pubkey |-> key, bft |-> bft,
     consuls |-> consuls, last_round |-> round]

\* #[derive(Default)]
Default == GravityContract(FALSE, Key(0), 0, <<>>, <<0, 0, 0, 0>>)

Ok(v) == [tag |-> "Ok", value |-> {v}]

Err(e) == [tag |-> e, value |-> {}]

Panic == [tag |-> "panic", value |-> {}]

\* the mutant of ParseFlag that takes every non-zero byte for true
ParseFlagNonZero(bytes) ==
    IF bytes = <<0>> THEN Ok(FALSE) ELSE Ok(TRUE)

\* the mutant of ConsulsVec that leaves out the third consul
ConsulsVecTwo(consuls) ==
    << Slice(consuls, 0, 32), Slice(consuls, 32, 64) >>

\* match is_initialized { [0] => false, [1] => true, _ => return Err(..) }
ParseFlag(bytes) ==
    IF bytes = <<0>> THEN Ok(FALSE)
    ELSE IF bytes = <<1>> THEN Ok(TRUE)
    ELSE Err("InvalidAccountData")

\* the three Pubkeys of the 96-byte consuls chunk
ConsulsVec(consuls) ==
    << Slice(consuls, 0, 32), Slice(consuls, 32, 64), Slice(consuls, 64, 96) >>

\* unpack_from_slice past array_ref!: array_refs! on the LEN-byte array,
\* the match on the flag and the struct literal
DecodeArray(a) ==
    LET is_initialized == ParseFlag(Slice(a, 0, 1))
        initializer_pubkey == Slice(a, 1, 33)
        bft == Slice(a, 33, 34)
        consuls == Slice(a, 34, 130)
        last_round == Slice(a, 130, 138)
    IN  IF is_initialized.tag # "Ok" THEN is_initialized
        ELSE Ok(GravityContract(
                 CHOOSE b \in is_initialized.value : TRUE,
                 initializer_pubkey,
                 bft[1],
                 ConsulsVec(consuls),
                 from_le_bytes(last_round)))

\* the mutant of unpack_from_slice that accepts a buffer of LEN bytes only
unpack_exact_len(buf) ==
    IF Len(buf) # LEN THEN Err("InvalidAccountData") ELSE DecodeArray(buf)

\* the mutant of unpack_from_slice that takes the last LEN bytes
unpack_last_bytes(buf) ==
    IF Len(buf) < LEN THEN Panic
    ELSE DecodeArray(SubSeq(buf, Len(buf) - LEN + 1, Len(buf)))

\* the mutant of pack_into_slice that does not write bft
pack_without_bft(self, buf) ==
    IF Len(buf) < LEN THEN [tag |-> "panic", dst |-> buf]
    ELSE
    LET d1 == WriteAt(buf, 0, <<BoolAsU8(self.is_initialized)>>)
        d2 == WriteAt(d1, 1, self.initializer_pubkey)
        folded == FoldConcat(self.consuls)
    IN  IF Len(folded) # 3 * PUBKEY_BYTES
        THEN [tag |-> "panic", dst |-> d2]
        ELSE [tag |-> "Ok",
              dst |-> WriteAt(WriteAt(d2, 34, folded), 130,
                              to_le_bytes(self.last_round))]

unpack_from_slice(buf) ==
    IF Len(buf) < LEN THEN Panic          \* array_ref![src, 0, LEN]
    ELSE
    DecodeArray(Slice(buf, 0, LEN))

pack_into_slice(self, buf) ==
    IF Len(buf) < LEN THEN [tag |-> "panic", dst |-> buf]   \* array_mut_ref!
    ELSE
    LET d1 == WriteAt(buf, 0, <<BoolAsU8(self.is_initialized)>>)
        d2 == WriteAt(d1, 1, self.initializer_pubkey)
        d3 == WriteAt(d2, 33, <<self.bft>>)
        folded == FoldConcat(self.consuls)
    IN  IF Len(folded) # 3 * PUBKEY_BYTES
        THEN [tag |-> "panic", dst |-> d3]                  \* copy_from_slice
        ELSE [tag |-> "Ok",
              dst |-> WriteAt(WriteAt(d3, 34, folded), 130,
                              to_le_bytes(self.last_round))]

\* n bytes of b
Fill(n, b) == [i \in 1..n |-> b]

(***************************************************************************)
(* Inputs: the states and buffers handed to the codec.                     *)
(***************************************************************************)
ConsulKeys == <<KeyA, KeyB, KeyC>>

\* n consuls taken in turn from KeyA, KeyB, KeyC, starting at the r-th
ConsulList(n, r) == [i \in 1..n |-> ConsulKeys[((i - 1 + r) % 3) + 1]]

ConsulLists == {ConsulList(n, 0) : n \in 0..MaxConsuls} \cup {ConsulList(3, 1)}

\* build_gravity_contract_mock: three unique consuls, chosen bft and
\* last_round, the remaining fields from Default
build_gravity_contract_mock(bft, round) ==
    [Default EXCEPT !.consuls = ConsulList(3, 0), !.bft = bft,
                    !.last_round = round]

\* struct literals with any consul count: the fields are public and
\* consuls is a Vec
InputStates ==
    {Default, build_gravity_contract_mock(255, RoundHex)}
    \cup {GravityContract(i, Key(0), 2, c, Round42) :
              i \in BOOLEAN, c \in ConsulLists}
    \cup {GravityContract(i, KeyA, 255, c, RoundHex) :
              i \in BOOLEAN, c \in ConsulLists}

\* raw chunks of 32 + 1 + 96 + 8 bytes following the flag byte, and bytes
\* past them
Bodies ==
    { Key(0) \o <<2>> \o KeyA \o KeyB \o KeyC \o <<42, 0, 0, 0, 0, 0, 0, 0>>,
      KeyA \o <<255>> \o KeyC \o KeyA \o KeyB \o <<8, 7, 6, 5, 4, 3, 2, 1>>,
      Fill(LEN - 1, 255) }

FlagBytes == {0, 1, 2, 255}

BufferLengths == {0, LEN - 1} \cup (LEN..(LEN + MaxExtra))

\* the first n bytes of flag, body, trailing bytes
RawBuffer(flag, body, n) ==
    SubSeq(<<flag>> \o body \o Fill(MaxExtra + 1, 238), 1, n)

InputBuffers ==
    {RawBuffer(f, b, n) : f \in FlagBytes, b \in Bodies, n \in BufferLengths}

\* destinations: the zeroed array of test_ser_deser_internal and buffers
\* with earlier contents, one byte short, exact and longer than LEN
Destinations ==
    {Fill(LEN, 0), Fill(LEN - 1, 170), Fill(LEN, 170), Fill(LEN + MaxExtra, 170)}

(***************************************************************************)
(* State.                                                                  *)
(*   gc       the in-memory GravityContract                                *)
(*   origin   where gc came from: "literal", "src" or "dst"                *)
(*   src      a buffer handed in for decoding                              *)
(*   dst      the caller-owned buffer encode writes into                   *)
(*   old_dst  dst before the last pack                                     *)
(*   packed   the states whose encoding dst holds (empty or one state)     *)
(*   op, ret  the last call and how it ended                               *)
(*   updates  field updates applied so far                                 *)
(***************************************************************************)
VARIABLES gc, origin, src, dst, old_dst, packed, op, ret, updates

vars == <<gc, origin, src, dst, old_dst, packed, op, ret, updates>>

Init ==
    /\ gc \in InputStates
    /\ origin = "literal"
    /\ src \in InputBuffers
    /\ dst \in Destinations
    /\ old_dst = dst
    /\ packed = {}
    /\ op = "none"
    /\ ret = "none"
    /\ updates = 0

\* GravityContract::unpack_from_slice(&buf) for buf one of the two buffers;
\* the caller binds the value of an Ok result
UnpackFrom(which) ==
    LET r == unpack_from_slice(IF which = "src" THEN src ELSE dst)
    IN  /\ op' = "unpack_" \o which
        /\ ret' = r.tag
        /\ IF r.tag = "Ok"
           THEN /\ gc' = CHOOSE v \in r.value : TRUE
                /\ origin' = which
           ELSE UNCHANGED <<gc, origin>>
        /\ UNCHANGED <<src, dst, old_dst, packed, updates>>

\* gc.pack_into_slice(&mut dst)
Pack ==
    LET r == pack_into_slice(gc, dst)
    IN  /\ op' = "pack"
        /\ ret' = r.tag
        /\ dst' = r.dst
        /\ old_dst' = dst
        /\ packed' = IF r.tag = "Ok" THEN {gc}
                     ELSE IF r.dst = dst THEN packed ELSE {}
        /\ UNCHANGED <<gc, origin, src, updates>>

Next == UnpackFrom("src") \/ UnpackFrom("dst") \/ Pack

Spec == Init /\ [][Next]_vars

(***************************************************************************)
(* The stored record: the account buffer dst holds an encoded record, the  *)
(* program loads it, the consensus logic changes fields of the loaded      *)
(* value and the program stores it back.                                   *)
(***************************************************************************)
StoredBuffers ==
    {RawBuffer(f, b, LEN) : f \in {0, 1}, b \in Bodies \ {Fill(LEN - 1, 255)}}

InitStored ==
    /\ dst \in StoredBuffers
    /\ src = dst
    /\ gc \in unpack_from_slice(dst).value
    /\ origin = "dst"
    /\ old_dst = dst
    /\ packed = {}
    /\ op = "unpack_dst"
    /\ ret = "Ok"
    /\ updates = 0

\* an assignment to one public field of the loaded value; the consul count
\* is left as it is
Update ==
    /\ updates < MaxUpdates
    /\ \/ \E b \in BOOLEAN : gc' = [gc EXCEPT !.is_initialized = b]
       \/ \E k \in {Key(0), KeyA} : gc' = [gc EXCEPT !.initializer_pubkey = k]
       \/ \E b \in {2, 255} : gc' = [gc EXCEPT !.bft = b]
       \/ \E r \in {Round42, RoundHex} : gc' = [gc EXCEPT !.last_round = r]
       \/ \E i \in 1..Len(gc.consuls), k \in {KeyA, KeyB, KeyC} :
              gc' = [gc EXCEPT !.consuls[i] = k]
    /\ gc' # gc
    /\ updates' = updates + 1
    /\ origin' = "literal"
    /\ op' = "update"
    /\ ret' = "none"
    /\ UNCHANGED <<src, dst, old_dst, packed>>

NextStored == UnpackFrom("dst") \/ Update \/ Pack

SpecStored == InitStored /\ [][NextStored]_vars

(***************************************************************************)
(* Properties.                                                             *)
(***************************************************************************)
Unpacks == {"unpack_src", "unpack_dst"}

\* the buffer the last unpack read (unpack leaves both buffers as they are)
Read == IF op = "unpack_src" THEN src ELSE dst

\* bytes first..first+7 (one-based) of b are the little-endian digits of v:
\* each 16-bit limb is low byte + 256 * high byte, least significant limb first
LittleEndianAt(b, first, v) ==
    \A k \in 0..3 :
        /\ b[first + 2 * k] \in 0..255
        /\ b[first + 2 * k + 1] \in 0..255
        /\ b[first + 2 * k] + 256 * b[first + 2 * k + 1] = v[4 - k]

\* C1: a state with exactly 3 consuls that was encoded into a buffer of LEN
\* bytes, whatever the buffer held, decodes from that buffer successfully
\* to a state equal to it field by field.
C1_RoundTrip ==
    (op = "unpack_dst" /\ packed # {} /\ Len(dst) = LEN)
        => (ret = "Ok" /\ packed = {gc})

C1_Witness ==
    /\ op = "unpack_dst"
    /\ ret = "Ok"
    /\ packed = {gc}
    /\ origin = "dst"
    /\ old_dst = Fill(LEN, 170)
    /\ gc = GravityContract(TRUE, KeyA, 255, <<KeyB, KeyC, KeyA>>, RoundHex)

\* C2: after encoding a state with exactly 3 consuls into a buffer of LEN
\* bytes, byte 0 is the flag, bytes 1..33 the initializer, byte 33 bft,
\* bytes 34..130 the three consuls in insertion order and bytes 130..138
\* last_round, so that no byte of the earlier contents is left.
C2_FieldLayout ==
    (op = "pack" /\ Len(gc.consuls) = 3 /\ Len(old_dst) = LEN)
        => /\ ret = "Ok"
           /\ Len(dst) = LEN
           /\ dst[1] = (IF gc.is_initialized THEN 1 ELSE 0)
           /\ SubSeq(dst, 2, 33) = gc.initializer_pubkey
           /\ dst[34] = gc.bft
           /\ SubSeq(dst, 35, 66) = gc.consuls[1]
           /\ SubSeq(dst, 67, 98) = gc.consuls[2]
           /\ SubSeq(dst, 99, 130) = gc.consuls[3]
           /\ LittleEndianAt(dst, 131, gc.last_round)

C2_Witness ==
    /\ op = "pack"
    /\ gc = GravityContract(TRUE, Key(0), 2, <<KeyA, KeyB, KeyC>>, Round42)
    /\ old_dst = Fill(LEN, 170)
    /\ dst = <<1>> \o Fill(32, 0) \o <<2>> \o KeyA \o KeyB \o KeyC
                 \o <<42, 0, 0, 0, 0, 0, 0, 0>>

\* C3 as stated: decoding a buffer whose length is not LEN fails with an
\* error value and returns no state.
C3_SizeMismatch ==
    (op \in Unpacks /\ Len(Read) # LEN) => ret \notin {"Ok", "panic"}

\* C3 as amended: decode has no size error.  A buffer shorter than LEN
\* returns nothing (the call panics); a buffer longer than LEN is not
\* rejected for its length: it fails only on a flag byte other than 0 and 1.
C3_NoSizeError ==
    (op \in Unpacks /\ Len(Read) # LEN)
        => IF Len(Read) < LEN THEN ret = "panic"
           ELSE IF Read[1] \in {0, 1} THEN ret = "Ok"
           ELSE ret = "InvalidAccountData"

C3_Witness ==
    /\ op = "unpack_src"
    /\ Len(src) = LEN + MaxExtra
    /\ ret = "Ok"
    /\ origin = "src"

\* C4: for a buffer of LEN bytes decode fails with InvalidAccountData
\* exactly when byte 0 is neither 0 nor 1, and succeeds otherwise whatever
\* the other bytes are.
C4_FlagOnly ==
    (op \in Unpacks /\ Len(Read) = LEN)
        => /\ Read[1] \notin {0, 1} => ret = "InvalidAccountData"
           /\ Read[1] \in {0, 1} => (ret = "Ok" /\ origin = (IF op = "unpack_src" THEN "src" ELSE "dst"))

C4_Witness ==
    /\ op = "unpack_src"
    /\ src = <<1>> \o Fill(LEN - 1, 255)
    /\ ret = "Ok"
    /\ gc.bft = 255
    /\ gc.last_round = <<65535, 65535, 65535, 65535>>

\* C5 as stated: encoding a state whose consul count is not 3 leaves the
\* destination buffer exactly as it was.
C5_RejectBeforeWrite ==
    (op = "pack" /\ Len(gc.consuls) # 3) => dst = old_dst

\* C6 as stated: decode ends with a state or an error value for every
\* buffer, never with a panic.
C6_DecodeTotal ==
    op \in Unpacks => ret \in {"Ok", "InvalidAccountData"}

\* C7: encode writes last_round at offsets 130..138 least significant byte
\* first (0x0102030405060708 as 08 07 06 05 04 03 02 01), and decode reads
\* the 8 bytes at those offsets as the same little-endian value.
C7_Endianness ==
    /\ (op = "pack" /\ ret = "Ok")
          => /\ LittleEndianAt(dst, 131, gc.last_round)
             /\ gc.last_round = RoundHex
                   => SubSeq(dst, 131, 138) = <<8, 7, 6, 5, 4, 3, 2, 1>>
             /\ gc.last_round = Round42
                   => SubSeq(dst, 131, 138) = <<42, 0, 0, 0, 0, 0, 0, 0>>
    /\ (op \in Unpacks /\ ret = "Ok")
          => /\ LittleEndianAt(Read, 131, gc.last_round)
             /\ SubSeq(Read, 131, 138) = <<8, 7, 6, 5, 4, 3, 2, 1>>
                   => gc.last_round = RoundHex

C7_Witness ==
    /\ op = "unpack_dst"
    /\ ret = "Ok"
    /\ packed = {gc}
    /\ gc.last_round = RoundHex
    /\ SubSeq(dst, 131, 138) = <<8, 7, 6, 5, 4, 3, 2, 1>>
    /\ old_dst = Fill(LEN, 0)

\* C8: a buffer longer than LEN whose byte 0 is 0 or 1 decodes successfully
\* to the state its first LEN bytes decode to; the bytes from offset LEN on
\* play no part.
C8_Oversized ==
    (op \in Unpacks /\ Len(Read) > LEN /\ Read[1] \in {0, 1})
        => /\ ret = "Ok"
           /\ {gc} = unpack_from_slice(SubSeq(Read, 1, LEN)).value
           /\ gc.initializer_pubkey = SubSeq(Read, 2, 33)
           /\ gc.consuls = <<SubSeq(Read, 35, 66), SubSeq(Read, 67, 98),
                             SubSeq(Read, 99, 130)>>

C8_Witness ==
    /\ op = "unpack_src"
    /\ ret = "Ok"
    /\ Len(src) > LEN
    /\ src[LEN + 1] = 238
    /\ gc = GravityContract(TRUE, KeyA, 255, <<KeyC, KeyA, KeyB>>, RoundHex)

\* C9: a state decoded from a buffer of LEN bytes and encoded into any
\* buffer of LEN bytes gives back the decoded buffer byte for byte.
C9_ReverseRoundTrip ==
    (op = "pack" /\ origin = "src" /\ Len(src) = LEN /\ Len(old_dst) = LEN)
        => (ret = "Ok" /\ dst = src)

C9_Witness ==
    /\ op = "pack"
    /\ origin = "src"
    /\ Len(src) = LEN
    /\ old_dst = Fill(LEN, 170)
    /\ dst = src
    /\ src[1] = 0

\* C10: a loaded record always has exactly 3 consuls, whatever fields were
\* updated since, so that storing it never panics and the account buffer
\* holds LEN decodable bytes after every step.
C10_AlwaysEncodable ==
    /\ Len(gc.consuls) = 3
    /\ ret # "panic"
    /\ op = "pack" => ret = "Ok"
    /\ Len(dst) = LEN
    /\ unpack_from_slice(dst).tag = "Ok"

C10_Witness ==
    /\ op = "pack"
    /\ ret = "Ok"
    /\ updates = 2
    /\ dst # src
    /\ dst # old_dst

====
